---- MODULE Spec2Model ----
(***************************************************************************)
(* The three services under backend/services: the analytics service        *)
(* (analytics_service/main.py), the user service (user_service/main.py)    *)
(* and the notification service (notification_service/main.py), each one   *)
(* module-level service object with its stores in process memory.          *)
(*                                                                         *)
(* The analytics service object holds two stores: self.events, a list of event       *)
(* dicts, and self.metrics, a defaultdict(list) from metric name to a list *)
(* of sample dicts.  Every handler is modelled as an operator that takes   *)
(* the store it reads and the call's input and returns the store after the *)
(* call together with the response (statusCode, body); the actions apply   *)
(* the handlers to inputs drawn from small sets.                           *)
(*                                                                         *)
(* Python values are represented as follows.                               *)
(*   dict          a function; its DOMAIN is the set of keys present       *)
(*   None          the value None below                                    *)
(*   list          a sequence                                              *)
(*   open mapping  (properties, tags) a set of <<key, value>> pairs        *)
(*   date string   [form, t]: form "naive" is YYYY-MM-DDTHH:MM:SS.ffffff,  *)
(*                 form "utc" is the same text followed by +00:00 or Z,    *)
(*                 form "bad" is text that is no ISO-8601 date             *)
(*   datetime      [t, aware]: t in clock ticks, aware iff it has tzinfo   *)
(*   number input  [num |-> n] a JSON number, [str |-> s] a JSON string    *)
(* Time is the wall clock read by datetime.utcnow(), in ticks of 24 hours; *)
(* it never runs backwards.  Calls run one at a time, except in the two    *)
(* specifications of handler threads, where the steps of the calls         *)
(* interleave.                                                             *)
(***************************************************************************)
EXTENDS Integers, Sequences, FiniteSets, TLC

\* Bound of the model: the number of records the two stores hold together.
MaxRecords == 2

\* Bound of the specification SpecStats: the number of samples of one metric.
MaxSamples == 5

\* Bounds of the specifications of the user and the notification service:
\* the number of users created, the number of notifications sent, and the
\* tick at which their clock stops.
MaxUsers == 2

MaxSent == 2

MaxTicks == 1

\* the number of requests the threaded server handles at the same time
MaxThreads == 3

VARIABLES
    events,         \* analytics_service.events
    metrics,        \* analytics_service.metrics
    clock,          \* the wall clock at the latest change of a store
    last,           \* the latest call and its answer
    users,          \* user_service.users: id -> user dict
    notifications,  \* notification_service.notifications: id -> notification dict
    threads         \* the handler threads in flight: thread -> its locals

vars == <<events, metrics, clock, last, users, notifications, threads>>

\* what the analytics service does not touch
otherServices == <<users, notifications, threads>>

None == "<None>"

\* A Python set object inside an open mapping: a value json.dumps rejects.
PySetObject == "<set object>"

EmptyDict == [k \in {} |-> None]

-----------------------------------------------------------------------------
(* Python primitives *)

\* dict.get(key, default)
Get(d, key, default) == IF key \in DOMAIN d THEN d[key] ELSE default

\* {**a, **b} for dicts with disjoint keys: how the inputs below are built.
Merge(a, b) ==
    [k \in DOMAIN a \cup DOMAIN b |-> IF k \in DOMAIN a THEN a[k] ELSE b[k]]

Range(s) == {s[i] : i \in 1..Len(s)}

\* [x[key] for x in s]
Field(s, key) == [i \in 1..Len(s) |-> s[i][key]]

Counter_presence(s) == [v \in Range(s) |-> 1]

\* collections.Counter(s) turned into a dict: value -> number of occurrences
Counter(s) ==
    [v \in Range(s) |-> Cardinality({i \in 1..Len(s) : s[i] = v})]

\* datetime.isoformat() of a naive datetime
isoformat(dt) == [form |-> "naive", t |-> dt.t]

\* datetime.utcnow(): naive, at the current tick
utcnow(now) == [t |-> now, aware |-> FALSE]

\* datetime.fromisoformat(s): ValueError on text that is no ISO date, an
\* aware datetime when the text carries an offset, a naive one otherwise.
BadDate == [form |-> "bad", t |-> 0]

fromisoformat(s) ==
    IF s.form = "bad"
    THEN [exc |-> "Invalid isoformat string", t |-> 0, aware |-> FALSE]
    ELSE [exc |-> None, t |-> s.t, aware |-> (s.form = "utc")]

\* a >= b, a <= b on datetimes raise TypeError when exactly one is aware
CompareRaises(a, b) == a.aware # b.aware

TypeErrorNaiveAware == "can't compare offset-naive and offset-aware datetimes"

\* list.append(x)
list_append_front(l, x) == <<x>> \o l

list_append(l, x) == Append(l, x)

\* str(uuid.uuid4()): a fresh identifier; ids are abstract, so the fresh one
\* is named after the number of ids the store already holds.
uuid4_constant(evs) == "uuid-1"

uuid4(evs) ==
    "uuid-" \o ToString(Cardinality({evs[i].id : i \in 1..Len(evs)}) + 1)

-----------------------------------------------------------------------------
(* AnalyticsService.track_event *)

RequiredEventFields == <<"event_name", "user_id">>

first_missing_reversed(data, required_fields) ==
    LET missing == {i \in 1..Len(required_fields) : required_fields[i] \notin DOMAIN data}
    IN  IF missing = {} THEN None
        ELSE required_fields[CHOOSE i \in missing : \A j \in missing : j <= i]

\* for field in required_fields: if field not in data: raise ValueError(...)
\* the first field, in list order, that is no key of data; None if all are
first_missing(data, required_fields) ==
    LET missing == {i \in 1..Len(required_fields) : required_fields[i] \notin DOMAIN data}
    IN  IF missing = {} THEN None
        ELSE required_fields[CHOOSE i \in missing : \A j \in missing : i <= j]

new_event_session_default(event_id, event_data, now) ==
    [id          |-> event_id,
     event_name  |-> event_data["event_name"],
     user_id     |-> event_data["user_id"],
     properties  |-> Get(event_data, "properties", {}),
     timestamp   |-> isoformat(utcnow(now)),
     session_id  |-> Get(event_data, "session_id", "unknown"),
     device_type |-> Get(event_data, "device_type", "unknown"),
     platform    |-> Get(event_data, "platform", "unknown")]

\* the event dict built at lines 38-47
new_event_sparse(event_id, event_data, now) ==
    Merge(event_data, [id |-> event_id, timestamp |-> isoformat(utcnow(now))])

new_event(event_id, event_data, now) ==
    [id          |-> event_id,
     event_name  |-> event_data["event_name"],
     user_id     |-> event_data["user_id"],
     properties  |-> Get(event_data, "properties", {}),
     timestamp   |-> isoformat(utcnow(now)),
     session_id  |-> Get(event_data, "session_id", None),
     device_type |-> Get(event_data, "device_type", "unknown"),
     platform    |-> Get(event_data, "platform", "unknown")]

track_event(evs, event_data, now) ==
    LET event_id == uuid4(evs)
        missing  == first_missing(event_data, RequiredEventFields)
    IN  IF missing # None
        THEN [events     |-> evs,
              statusCode |-> 400,
              body       |-> [error |-> "Missing required field: " \o missing]]
        ELSE [events     |-> list_append(evs, new_event(event_id, event_data, now)),
              statusCode |-> 200,
              body       |-> [message  |-> "Event tracked successfully",
                              event_id |-> event_id]]

-----------------------------------------------------------------------------
(* AnalyticsService.get_event_analytics *)

\* the default argument filters=None (None where a dict is expected)
NoFilters == [NoneType |-> TRUE]

\* `if filters:` a dict is true when it is not None and has a key
Truthy(filters) == filters # NoFilters /\ DOMAIN filters # {}

\* lines 75-76: keep the events of the given name when the key is present
filter_event_name(evs, filters) ==
    IF "event_name" \in DOMAIN filters
    THEN LET Keep(e) == e.event_name = filters["event_name"] IN SelectSeq(evs, Keep)
    ELSE evs

\* lines 78-79
filter_user_id_ignored(evs, filters) == evs

filter_user_id(evs, filters) ==
    IF "user_id" \in DOMAIN filters
    THEN LET Keep(e) == e.user_id = filters["user_id"] IN SelectSeq(evs, Keep)
    ELSE evs

\* lines 81-84: [exc, events]; the bound is parsed first, then every event's
\* timestamp is parsed and compared with it, so the comparison raises only
\* when an event is left to compare.
filter_date_from(evs, filters) ==
    IF "date_from" \notin DOMAIN filters THEN [exc |-> None, events |-> evs]
    ELSE LET date_from == fromisoformat(filters["date_from"])
             Keep(e) == fromisoformat(e.timestamp).t >= date_from.t
         IN  IF date_from.exc # None
             THEN [exc |-> date_from.exc, events |-> evs]
             ELSE IF \E i \in 1..Len(evs) :
                        CompareRaises(fromisoformat(evs[i].timestamp), date_from)
             THEN [exc |-> TypeErrorNaiveAware, events |-> evs]
             ELSE [exc |-> None, events |-> SelectSeq(evs, Keep)]

\* lines 86-89
filter_date_to(evs, filters) ==
    IF "date_to" \notin DOMAIN filters THEN [exc |-> None, events |-> evs]
    ELSE LET date_to == fromisoformat(filters["date_to"])
             Keep(e) == fromisoformat(e.timestamp).t <= date_to.t
         IN  IF date_to.exc # None
             THEN [exc |-> date_to.exc, events |-> evs]
             ELSE IF \E i \in 1..Len(evs) :
                        CompareRaises(fromisoformat(evs[i].timestamp), date_to)
             THEN [exc |-> TypeErrorNaiveAware, events |-> evs]
             ELSE [exc |-> None, events |-> SelectSeq(evs, Keep)]

\* lines 71-89: [exc, events], the filtered events or the exception raised
apply_filters(evs, filters) ==
    IF ~Truthy(filters) THEN [exc |-> None, events |-> evs]
    ELSE LET f2 == filter_user_id(filter_event_name(evs, filters), filters)
             f3 == filter_date_from(f2, filters)
         IN  IF f3.exc # None THEN f3 ELSE filter_date_to(f3.events, filters)

\* timedelta(hours=24), in clock ticks: a tick is 24 hours
Hours24 == 1

\* strftime('%Y-%m-%d %H:00'): the hour a datetime falls in; two datetimes
\* of the grid fall in the same hour iff they are the same tick
hour_key(dt) == dt.t

hourly_events_24h_unrestricted(filtered_events, now) ==
    Counter([i \in 1..Len(filtered_events) |->
                hour_key(fromisoformat(filtered_events[i].timestamp))])

\* lines 104-111: per hour, the events not older than 24 hours at `now`
hourly_events_24h(filtered_events, now) ==
    LET Recent(e) == utcnow(now).t - fromisoformat(e.timestamp).t <= Hours24
        recent == SelectSeq(filtered_events, Recent)
    IN  Counter([i \in 1..Len(recent) |-> hour_key(fromisoformat(recent[i].timestamp))])

\* lines 91-122: the analytics of the filtered events
aggregate(filtered_events, filters, now) ==
    [total_events          |-> Len(filtered_events),
     unique_users          |-> Cardinality(Range(Field(filtered_events, "user_id"))),
     event_counts          |-> Counter(Field(filtered_events, "event_name")),
     device_distribution   |-> Counter(Field(filtered_events, "device_type")),
     platform_distribution |-> Counter(Field(filtered_events, "platform")),
     hourly_events_24h     |-> hourly_events_24h(filtered_events, now),
     filters_applied       |-> IF Truthy(filters) THEN filters ELSE EmptyDict,
     generated_at          |-> isoformat(utcnow(now))]

get_event_analytics_404_on_empty(evs, filters, now) ==
    LET f == apply_filters(evs, filters)
    IN  IF f.exc # None
        THEN [events |-> evs, statusCode |-> 500, body |-> [error |-> f.exc]]
        ELSE IF f.events = <<>>
        THEN [events |-> evs, statusCode |-> 404, body |-> [error |-> "No events found"]]
        ELSE [events     |-> evs,
              statusCode |-> 200,
              body       |-> [analytics |-> aggregate(f.events, filters, now)]]

get_event_analytics(evs, filters, now) ==
    LET f == apply_filters(evs, filters)
    IN  IF f.exc # None
        THEN [events |-> evs, statusCode |-> 500, body |-> [error |-> f.exc]]
        ELSE [events     |-> evs,
              statusCode |-> 200,
              body       |-> [analytics |-> aggregate(f.events, filters, now)]]

-----------------------------------------------------------------------------
(* AnalyticsService.get_user_analytics *)

WeekdayNames ==
    <<"Monday", "Tuesday", "Wednesday", "Thursday", "Friday", "Saturday", "Sunday">>

\* strftime('%A'): the weekday name; a tick is a day and tick 0 is a Monday
strftime_A(dt) == WeekdayNames[(dt.t % 7) + 1]

user_events_of_anyone(evs, user_id) == evs

\* line 144: [e for e in self.events if e['user_id'] == user_id]
user_events_of(evs, user_id) ==
    LET OfUser(e) == e.user_id = user_id IN SelectSeq(evs, OfUser)

sessions_of_unguarded(user_events) ==
    {user_events[i].session_id : i \in 1..Len(user_events)}

\* line 164: set(e['session_id'] for e in user_events if e['session_id']);
\* `if e['session_id']` skips None and the empty string
sessions_of(user_events) ==
    {user_events[i].session_id : i \in 1..Len(user_events)} \ {None, ""}

get_user_analytics(evs, user_id, now) ==
    LET user_events  == user_events_of(evs, user_id)
        datetimes    == [i \in 1..Len(user_events) |->
                            fromisoformat(user_events[i].timestamp)]
        timestamps   == {datetimes[i].t : i \in 1..Len(datetimes)}
        sessions     == sessions_of(user_events)
    IN  IF user_events = <<>>
        THEN [events |-> evs, statusCode |-> 404,
              body |-> [error |-> "No events found for user"]]
        ELSE [events     |-> evs,
              statusCode |-> 200,
              body       |-> [user_analytics |->
                  [user_id        |-> user_id,
                   total_events   |-> Len(user_events),
                   total_sessions |-> Cardinality(sessions),
                   event_counts   |-> Counter(Field(user_events, "event_name")),
                   first_activity |-> isoformat([t |-> CHOOSE t \in timestamps : \A u \in timestamps : t <= u]),
                   last_activity  |-> isoformat([t |-> CHOOSE t \in timestamps : \A u \in timestamps : t >= u]),
                   devices_used   |-> {user_events[i].device_type : i \in 1..Len(user_events)},
                   platforms_used |-> {user_events[i].platform : i \in 1..Len(user_events)},
                   activity_by_day |-> Counter([i \in 1..Len(datetimes) |-> strftime_A(datetimes[i])]),
                   generated_at   |-> isoformat(utcnow(now))]]]

-----------------------------------------------------------------------------
(* AnalyticsService.record_metric *)

RequiredMetricFields == <<"metric_name", "value">>

\* float(x): a number converts, a string converts when it is a numeral,
\* anything else raises ValueError
NumeralStrings == {"10", "20"}

float_permissive(x) ==
    IF "num" \in DOMAIN x THEN [exc |-> None, value |-> x.num]
    ELSE [exc |-> None, value |-> IF x.str = "10" THEN 10 ELSE 20]

float(x) ==
    IF "num" \in DOMAIN x THEN [exc |-> None, value |-> x.num]
    ELSE IF x.str \in NumeralStrings
         THEN [exc |-> None, value |-> IF x.str = "10" THEN 10 ELSE 20]
         ELSE [exc |-> "could not convert string to float", value |-> 0]

\* json.dumps(metric) raises TypeError on a value that is no JSON value
json_dumps_raises(metric) == \E p \in metric.tags : p[2] = PySetObject

\* self.metrics[name].append(metric) on a defaultdict(list)
defaultdict_append(mets, name, metric) ==
    [n \in DOMAIN mets \cup {name} |->
        IF n = name
        THEN list_append(IF n \in DOMAIN mets THEN mets[n] ELSE <<>>, metric)
        ELSE mets[n]]

record_metric(mets, metric_data, now) ==
    LET missing == first_missing(metric_data, RequiredMetricFields)
    IN  IF missing # None
        THEN [metrics |-> mets, statusCode |-> 400,
              body |-> [error |-> "Missing required field: " \o missing]]
        ELSE
        LET value == float(metric_data["value"])
        IN  IF value.exc # None
            THEN [metrics |-> mets, statusCode |-> 400, body |-> [error |-> value.exc]]
            ELSE
            LET metric == [metric_name |-> metric_data["metric_name"],
                           value       |-> value.value,
                           timestamp   |-> isoformat(utcnow(now)),
                           tags        |-> Get(metric_data, "tags", {}),
                           unit        |-> Get(metric_data, "unit", "count")]
                stored == defaultdict_append(mets, metric.metric_name, metric)
            IN  \* the sample is appended before the response is serialised
                IF json_dumps_raises(metric)
                THEN [metrics |-> stored, statusCode |-> 400,
                      body |-> [error |-> "Object of type set is not JSON serializable"]]
                ELSE [metrics |-> stored, statusCode |-> 200,
                      body |-> [message |-> "Metric recorded successfully",
                                metric  |-> metric]]

-----------------------------------------------------------------------------
(* AnalyticsService.get_metric_stats *)

\* the lookup self.metrics[name] without the membership test before it: a
\* defaultdict creates the key
get_metric_stats_no_guard(mets, metric_name, now) ==
    [metrics |-> [n \in DOMAIN mets \cup {metric_name} |->
                     IF n \in DOMAIN mets THEN mets[n] ELSE <<>>],
     statusCode |-> IF metric_name \in DOMAIN mets THEN 200 ELSE 404,
     body |-> [error |-> "No data points for metric"]]

RECURSIVE SumSeq(_)
\* sum(values)
SumSeq(values) == IF values = <<>> THEN 0 ELSE Head(values) + SumSeq(Tail(values))

RECURSIVE sorted(_)
\* sorted(values), ascending
sorted(values) ==
    IF values = <<>> THEN <<>>
    ELSE LET least == CHOOSE i \in 1..Len(values) : \A j \in 1..Len(values) : values[i] <= values[j]
             rest  == [k \in 1..(Len(values) - 1) |-> IF k < least THEN values[k] ELSE values[k + 1]]
         IN  <<values[least]>> \o sorted(rest)

\* statistics.mean(values): the exact quotient sum / count, kept as a fraction
mean(values) == [num |-> SumSeq(values), den |-> Len(values)]

median_upper_middle(values) ==
    LET data == sorted(values)
    IN  [num |-> data[(Len(data) \div 2) + 1], den |-> 1]

\* statistics.median(values): the middle value of the sorted values, or the
\* mean of the two middle values when their number is even
median(values) ==
    LET data == sorted(values)
        n == Len(data)
    IN  IF n % 2 = 1 THEN [num |-> data[(n \div 2) + 1], den |-> 1]
        ELSE [num |-> data[n \div 2] + data[(n \div 2) + 1], den |-> 2]

\* statistics.stdev(values): the square root of the sample variance
\* sum((x - mean)^2) / (n - 1), kept as the fraction under the root
stdev(values) ==
    LET n == Len(values)
        squares == [i \in 1..n |-> values[i] * values[i]]
    IN  [sqrt_num |-> n * SumSeq(squares) - SumSeq(values) * SumSeq(values),
         sqrt_den |-> n * (n - 1)]

enough_data_points_above_two(metric_values) == Len(metric_values) > 2

\* line 275: if len(metric_values) > 1
enough_data_points(metric_values) == Len(metric_values) > 1

get_metric_stats(mets, metric_name, now) ==
    IF metric_name \notin DOMAIN mets
    THEN [metrics |-> mets, statusCode |-> 404, body |-> [error |-> "Metric not found"]]
    ELSE
    LET metric_values == Field(mets[metric_name], "value")
        values == Range(metric_values)
        stats == [metric_name  |-> metric_name,
                  count        |-> Len(metric_values),
                  min          |-> CHOOSE v \in values : \A w \in values : v <= w,
                  max          |-> CHOOSE v \in values : \A w \in values : v >= w,
                  mean         |-> mean(metric_values),
                  median       |-> median(metric_values),
                  sum          |-> SumSeq(metric_values),
                  generated_at |-> isoformat(utcnow(now))]
    IN  IF metric_values = <<>>
        THEN [metrics |-> mets, statusCode |-> 404,
              body |-> [error |-> "No data points for metric"]]
        ELSE [metrics    |-> mets,
              statusCode |-> 200,
              body       |-> [metric_stats |->
                  IF enough_data_points(metric_values)
                  THEN Merge(stats, [std_dev |-> stdev(metric_values)])
                  ELSE stats]]

-----------------------------------------------------------------------------
(* UserService: create_user, get_user, update_user *)

new_user_id_reused(us) == "user-1"

\* str(uuid.uuid4()): a fresh identifier, named after the number of users
\* the store holds (no user is ever removed)
new_user_id(us) == "user-" \o ToString(Cardinality(DOMAIN us) + 1)

\* `not x` on a name or an email: None and the empty string are false
Falsy(x) == x \in {None, ""}

dict_set_clearing(d, key, value) == [k \in {key} |-> value]

\* self.users[user_id] = user
dict_set(d, key, value) ==
    [k \in DOMAIN d \cup {key} |-> IF k = key THEN value ELSE d[k]]

create_user(us, user_data, now) ==
    LET user_id == new_user_id(us)
        user == [id         |-> user_id,
                 name       |-> Get(user_data, "name", None),
                 email      |-> Get(user_data, "email", None),
                 created_at |-> isoformat(utcnow(now)),
                 updated_at |-> isoformat(utcnow(now))]
    IN  IF Falsy(user.name) \/ Falsy(user.email)
        THEN [users |-> us, statusCode |-> 400,
              body |-> [error |-> "Name and email are required"]]
        ELSE [users |-> dict_set(us, user_id, user), statusCode |-> 200,
              body |-> [message |-> "User created successfully", user |-> user]]

get_user(us, user_id) ==
    IF user_id \notin DOMAIN us
    THEN [users |-> us, statusCode |-> 404, body |-> [error |-> "User not found"]]
    ELSE [users |-> us, statusCode |-> 200, body |-> [user |-> us[user_id]]]

updated_user_overwritten(user, update_data, now) ==
    [id         |-> user.id,
     name       |-> Get(update_data, "name", None),
     email      |-> Get(update_data, "email", None),
     created_at |-> user.created_at,
     updated_at |-> isoformat(utcnow(now))]

\* lines 99-104: user.update({'name': ..., 'email': ..., 'updated_at': ...}):
\* the three keys are set, the other keys of the stored dict stay
updated_user(user, update_data, now) ==
    [id         |-> user.id,
     name       |-> Get(update_data, "name", user.name),
     email      |-> Get(update_data, "email", user.email),
     created_at |-> user.created_at,
     updated_at |-> isoformat(utcnow(now))]

update_user(us, user_id, update_data, now) ==
    IF user_id \notin DOMAIN us
    THEN [users |-> us, statusCode |-> 404, body |-> [error |-> "User not found"]]
    ELSE LET user == updated_user(us[user_id], update_data, now)
         IN  [users |-> dict_set(us, user_id, user), statusCode |-> 200,
              body |-> [message |-> "User updated successfully", user |-> user]]

-----------------------------------------------------------------------------
(* NotificationService: send_notification, get_notification_status,
   get_notifications_by_recipient *)

\* NotificationType: the values of the enum
NotificationTypes == {"email", "sms", "push"}

\* _initialize_templates: each text with the replacement fields it names, in
\* the order str.format meets them
templates ==
    [welcome |->
        [subject |-> [text |-> "Welcome to our platform!", fields |-> <<>>],
         body    |-> [text |-> "Hello {name}, welcome to our amazing platform!",
                      fields |-> <<"name">>]],
     password_reset |->
        [subject |-> [text |-> "Password Reset Request", fields |-> <<>>],
         body    |-> [text |-> "Hello {name}, click here to reset your password: {reset_link}",
                      fields |-> <<"name", "reset_link">>]],
     order_confirmation |->
        [subject |-> [text |-> "Order Confirmation", fields |-> <<>>],
         body    |-> [text |-> "Hello {name}, your order #{order_id} has been confirmed!",
                      fields |-> <<"name", "order_id">>]]]

\* the dates of the sample notifications: 2024-02-01, written with a Z
SampleDay == [form |-> "utc", t |-> 0]

\* _initialize_sample_data: the three notifications the store starts with
sample_notifications ==
    [n \in {"1", "2", "3"} |->
        CASE n = "1" ->
                [id |-> "1", recipient |-> "john.doe@cloudsync.com",
                 type |-> "email", template |-> "welcome",
                 subject |-> "Welcome to CloudSync Platform!",
                 message |-> "Hello John Doe, welcome to our amazing platform!",
                 status |-> "sent", created_at |-> SampleDay, sent_at |-> SampleDay]
          [] n = "2" ->
                [id |-> "2", recipient |-> "jane.smith@cloudsync.com",
                 type |-> "email", template |-> "password_reset",
                 subject |-> "Password Reset Request",
                 message |-> "Hello Jane Smith, click here to reset your password: https://cloudsync.com/reset/abc123",
                 status |-> "sent", created_at |-> SampleDay, sent_at |-> SampleDay]
          [] n = "3" ->
                [id |-> "3", recipient |-> "mike.johnson@cloudsync.com",
                 type |-> "email", template |-> "order_confirmation",
                 subject |-> "Order Confirmation",
                 message |-> "Hello Mike Johnson, your order #12345 has been confirmed!",
                 status |-> "pending", created_at |-> SampleDay]]

\* str(uuid.uuid4()): a fresh identifier, named after the number of
\* notifications the store holds (no notification is ever removed)
new_notification_id(nots) ==
    "notification-" \o ToString(Cardinality(DOMAIN nots) + 1)

\* text.format(**variables): KeyError on the first replacement field that is
\* no key of variables, else the text with the values of its fields filled in
str_format(part, variables) ==
    LET missing == first_missing(variables, part.fields)
    IN  IF missing # None
        THEN [exc |-> "'" \o missing \o "'", value |-> None]
        ELSE [exc |-> None,
              value |-> [text |-> part.text,
                         args |-> [i \in 1..Len(part.fields) |-> variables[part.fields[i]]]]]

RequiredNotificationFields == <<"recipient", "type", "template">>

\* lines 138-145: the notification after the simulated send
sent_notification_left_pending(notification, success, now) == notification

sent_notification(notification, success, now) ==
    IF success
    THEN [notification EXCEPT !.status = "sent",
                              !.sent_at = isoformat(utcnow(now))]
    ELSE [notification EXCEPT !.status = "failed",
                              !.error_message = "Failed to send notification"]

\* lines 105-108: the type is checked after the required fields
invalid_type_unchecked(notification_type) == FALSE

invalid_type(notification_type) == notification_type \notin NotificationTypes

\* success is the outcome of _simulate_send: random.random() > 0.1
send_notification(nots, notification_data, now, success) ==
    LET notification_id == new_notification_id(nots)
        missing == first_missing(notification_data, RequiredNotificationFields)
        Rejected(error) == [notifications |-> nots, statusCode |-> 400,
                            body |-> [error |-> error]]
    IN  IF missing # None THEN Rejected("Missing required field: " \o missing)
        ELSE
        LET notification_type == notification_data["type"]
            template_name == notification_data["template"]
        IN  IF invalid_type(notification_type)
            THEN Rejected("Invalid notification type: " \o notification_type)
            ELSE IF template_name \notin DOMAIN templates
            THEN Rejected("Template not found: " \o template_name)
            ELSE
            LET template == templates[template_name]
                variables == Get(notification_data, "variables", EmptyDict)
                subject == str_format(template.subject, variables)
                body == str_format(template.body, variables)
            IN  IF subject.exc # None THEN Rejected(subject.exc)
                ELSE IF body.exc # None THEN Rejected(body.exc)
                ELSE
                LET pending == [id            |-> notification_id,
                                recipient     |-> notification_data["recipient"],
                                type          |-> notification_type,
                                template      |-> template_name,
                                subject       |-> subject.value,
                                body          |-> body.value,
                                status        |-> "pending",
                                created_at    |-> isoformat(utcnow(now)),
                                sent_at       |-> None,
                                error_message |-> None]
                    notification == sent_notification(pending, success, now)
                IN  [notifications |-> dict_set(nots, notification_id, notification),
                     statusCode |-> 200,
                     body |-> [message |-> "Notification processed",
                               notification |-> notification]]

get_notification_status(nots, notification_id) ==
    IF notification_id \notin DOMAIN nots
    THEN [notifications |-> nots, statusCode |-> 404,
          body |-> [error |-> "Notification not found"]]
    ELSE [notifications |-> nots, statusCode |-> 200,
          body |-> [notification |-> nots[notification_id]]]

\* the notifications of a recipient, as the set of the list the code returns
get_notifications_by_recipient(nots, recipient) ==
    LET recipient_notifications ==
            {nots[n] : n \in {m \in DOMAIN nots : nots[m].recipient = recipient}}
    IN  [notifications |-> nots, statusCode |-> 200,
         body |-> [notifications |-> recipient_notifications,
                   count |-> Cardinality(recipient_notifications)]]

-----------------------------------------------------------------------------
(* lambda_handler of the three services *)

\* A request body is a string.  len is its length, parses tells whether
\* json.loads accepts it, value is the dict it denotes when it does.
EmptyString == [len |-> 0, parses |-> FALSE, value |-> EmptyDict]

\* the string '{not json'
NotJson == [len |-> 9, parses |-> FALSE, value |-> EmptyDict]

\* the JSON text of a dict
json_dumps(d) == [len |-> 2, parses |-> TRUE, value |-> d]

json_loads_lenient(s) == [raised |-> FALSE, value |-> s.value]

\* json.loads: the dict of a JSON text; JSONDecodeError on any other string
json_loads(s) ==
    IF s.parses THEN [raised |-> FALSE, value |-> s.value]
    ELSE [raised |-> TRUE, value |-> EmptyDict]

\* `if body:` event.get('body') is neither None nor the empty string
body_given(event) == "body" \in DOMAIN event /\ event.body.len > 0

\* `if body: body = json.loads(body)`
parsed_body(event) ==
    IF body_given(event) THEN json_loads(event.body)
    ELSE [raised |-> FALSE, value |-> EmptyDict]

\* event.get('pathParameters') or {}, event.get('queryStringParameters') or {}
or_empty(event, key) == Get(event, key, EmptyDict)

MethodNotAllowed == [statusCode |-> 405, body |-> [error |-> "Method not allowed"]]

InternalServerError == [statusCode |-> 500, body |-> [error |-> "Internal server error"]]

\* analytics_service/main.py lambda_handler.  called names the operation of
\* the service the handler invokes, None when it invokes none.
analytics_lambda_handler(evs, mets, event, now) ==
    LET http_method     == Get(event, "httpMethod", "GET")
        path_parameters  == or_empty(event, "pathParameters")
        query_parameters == or_empty(event, "queryStringParameters")
        body        == parsed_body(event)
        resource    == Get(path_parameters, "resource", None)
        user_id     == Get(path_parameters, "user_id", None)
        metric_name == Get(path_parameters, "metric_name", None)
        Unchanged(answer) ==
            [events |-> evs, metrics |-> mets, called |-> None,
             statusCode |-> answer.statusCode, body |-> answer.body]
        OnEvents(r, op) ==
            [events |-> r.events, metrics |-> mets, called |-> op,
             statusCode |-> r.statusCode, body |-> r.body]
        OnMetrics(r, op) ==
            [events |-> evs, metrics |-> r.metrics, called |-> op,
             statusCode |-> r.statusCode, body |-> r.body]
    IN  IF body.raised THEN Unchanged(InternalServerError)
        ELSE IF http_method = "POST" /\ resource = "events"
        THEN OnEvents(track_event(evs, body.value, now), "track_event")
        ELSE IF http_method = "GET" /\ resource = "analytics"
        THEN OnEvents(get_event_analytics(evs, query_parameters, now),
                      "get_event_analytics")
        ELSE IF http_method = "GET" /\ resource = "users" /\ ~Falsy(user_id)
        THEN OnEvents(get_user_analytics(evs, user_id, now), "get_user_analytics")
        ELSE IF http_method = "POST" /\ resource = "metrics"
        THEN OnMetrics(record_metric(mets, body.value, now), "record_metric")
        ELSE IF http_method = "GET" /\ resource = "metrics" /\ ~Falsy(metric_name)
        THEN OnMetrics(get_metric_stats(mets, metric_name, now), "get_metric_stats")
        ELSE Unchanged(MethodNotAllowed)

\* user_service/main.py lambda_handler
user_lambda_handler(us, event, now) ==
    LET http_method     == Get(event, "httpMethod", "GET")
        path_parameters == or_empty(event, "pathParameters")
        body    == parsed_body(event)
        user_id == Get(path_parameters, "user_id", None)
        Unchanged(answer) ==
            [users |-> us, called |-> None,
             statusCode |-> answer.statusCode, body |-> answer.body]
        OnUsers(r, op) ==
            [users |-> r.users, called |-> op,
             statusCode |-> r.statusCode, body |-> r.body]
    IN  IF body.raised THEN Unchanged(InternalServerError)
        ELSE IF http_method = "POST"
        THEN OnUsers(create_user(us, body.value, now), "create_user")
        ELSE IF http_method = "GET" /\ ~Falsy(user_id)
        THEN OnUsers(get_user(us, user_id), "get_user")
        ELSE IF http_method = "PUT" /\ ~Falsy(user_id)
        THEN OnUsers(update_user(us, user_id, body.value, now), "update_user")
        ELSE Unchanged(MethodNotAllowed)

\* notification_service/main.py lambda_handler
notification_lambda_handler(nots, event, now, success) ==
    LET http_method      == Get(event, "httpMethod", "GET")
        path_parameters  == or_empty(event, "pathParameters")
        query_parameters == or_empty(event, "queryStringParameters")
        body            == parsed_body(event)
        notification_id == Get(path_parameters, "notification_id", None)
        recipient       == Get(query_parameters, "recipient", None)
        Unchanged(answer) ==
            [notifications |-> nots, called |-> None,
             statusCode |-> answer.statusCode, body |-> answer.body]
        OnNotifications(r, op) ==
            [notifications |-> r.notifications, called |-> op,
             statusCode |-> r.statusCode, body |-> r.body]
    IN  IF body.raised THEN Unchanged(InternalServerError)
        ELSE IF http_method = "POST"
        THEN OnNotifications(send_notification(nots, body.value, now, success),
                             "send_notification")
        ELSE IF http_method = "GET" /\ ~Falsy(notification_id)
        THEN OnNotifications(get_notification_status(nots, notification_id),
                             "get_notification_status")
        ELSE IF http_method = "GET" /\ ~Falsy(recipient)
        THEN OnNotifications(get_notifications_by_recipient(nots, recipient),
                             "get_notifications_by_recipient")
        ELSE Unchanged(MethodNotAllowed)

-----------------------------------------------------------------------------
(* Inputs *)

AllOptional ==
    [properties  |-> {<<"page", "/home">>},
     session_id  |-> "s1",
     device_type |-> "mobile",
     platform    |-> "web"]

TrackInputs ==
    { [event_name |-> "click", user_id |-> "u1"],
      [event_name |-> "click", user_id |-> "u2", session_id |-> ""],
      Merge([event_name |-> "view", user_id |-> "u1"], AllOptional),
      [event_name |-> "", user_id |-> None],
      [user_id |-> "u1"],
      Merge([event_name |-> "click"], AllOptional),
      EmptyDict }

\* date strings a caller may send as a bound
BoundaryDates == {[form |-> "naive", t |-> 1], [form |-> "utc", t |-> 1], BadDate}

FilterNameParts == {EmptyDict, [event_name |-> "click"]}

FilterUserParts == {EmptyDict, [user_id |-> "u1"]}

\* date criteria: none, one bound of each form, or both bounds
FilterDateParts ==
    {EmptyDict}
    \cup {[date_from |-> d] : d \in BoundaryDates}
    \cup {[date_to |-> d] : d \in BoundaryDates}
    \cup {[date_from |-> [form |-> "naive", t |-> 1], date_to |-> [form |-> "naive", t |-> 1]],
          [date_from |-> [form |-> "naive", t |-> 1], date_to |-> BadDate]}

FilterInputs ==
    {NoFilters, [page |-> "1"]} \cup
    {Merge(Merge(n, u), d) :
        n \in FilterNameParts, u \in FilterUserParts, d \in FilterDateParts}

UserIds == {"u1", "u2", "u3", None}

MetricNames == {"cpu", "mem", "response_time"}

MetricInputs ==
    { [metric_name |-> "cpu", value |-> [num |-> 10]],
      [metric_name |-> "mem", value |-> [str |-> "20"],
       tags |-> {<<"env", "prod">>}, unit |-> "ms"],
      [metric_name |-> "cpu", value |-> [num |-> 20],
       tags |-> {<<"hosts", PySetObject>>}],
      [metric_name |-> "cpu", value |-> [str |-> "abc"]],
      [metric_name |-> "mem", unit |-> "ms"],
      [value |-> [num |-> 10]],
      EmptyDict }

\* the samples of one metric, as a monitoring client records them
SampleValues == {100, 200, 300, 400, 500}

SampleInputs ==
    {[metric_name |-> "response_time", value |-> [num |-> v]] : v \in SampleValues}

CreateInputs ==
    { [name |-> "Ann", email |-> "ann@example.com"],
      [name |-> "Ann"],
      [email |-> "ann@example.com"],
      [name |-> "", email |-> "ann@example.com"],
      [name |-> "Ann", email |-> None],
      EmptyDict }

UpdateInputs ==
    { [name |-> "Bob"],
      [email |-> "bob@example.com"],
      [name |-> "Bob", email |-> "bob@example.com"],
      [name |-> ""],
      [id |-> "user-9", created_at |-> BadDate],
      EmptyDict }

\* ids a caller asks for: ids the service issues and one it never issues
QueryUserIds == {"user-1", "user-2", "nobody"}

WelcomeAnn ==
    [recipient |-> "ann@example.com", type |-> "email", template |-> "welcome",
     variables |-> [name |-> "Ann"]]

OrderBob ==
    [recipient |-> "+15550100", type |-> "sms", template |-> "order_confirmation",
     variables |-> [name |-> "Bob", order_id |-> "12345", coupon |-> "X"]]

NotificationInputs ==
    { WelcomeAnn,
      OrderBob,
      [type |-> "email", template |-> "welcome"],
      [recipient |-> "ann@example.com", template |-> "nosuch"],
      [recipient |-> "ann@example.com", type |-> "fax"],
      [recipient |-> "ann@example.com", type |-> "fax", template |-> "nosuch"],
      [recipient |-> "ann@example.com", type |-> "push", template |-> "nosuch"],
      [recipient |-> "ann@example.com", type |-> "email", template |-> "welcome"],
      [recipient |-> "ann@example.com", type |-> "email", template |-> "password_reset",
       variables |-> [reset_link |-> "https://example.com/r"]],
      EmptyDict }

\* ids a caller asks for: sample ids, ids the service issues, one it never does
QueryNotificationIds == {"1", "3", "notification-4", "notification-5", "nosuch"}

Recipients == {"ann@example.com", "john.doe@cloudsync.com", "nobody@example.com"}

\* requests to the lambda_handler of the analytics service: every route, with
\* and without a body, and requests that no route takes
AnalyticsRequests ==
    LET Click == json_dumps([event_name |-> "click", user_id |-> "u1"])
        Cpu   == json_dumps([metric_name |-> "cpu", value |-> [num |-> 10]])
        On(resource) == [resource |-> resource]
    IN  { [httpMethod |-> "POST", pathParameters |-> On("events"), body |-> Click],
          [httpMethod |-> "POST", pathParameters |-> On("events")],
          [httpMethod |-> "POST", pathParameters |-> On("events"), body |-> EmptyString],
          [httpMethod |-> "POST", pathParameters |-> On("events"), body |-> NotJson],
          [httpMethod |-> "GET", pathParameters |-> On("analytics"),
           queryStringParameters |-> [user_id |-> "u1"]],
          [httpMethod |-> "GET", pathParameters |-> On("analytics"), body |-> NotJson],
          [pathParameters |-> On("analytics")],
          [httpMethod |-> "GET",
           pathParameters |-> [resource |-> "users", user_id |-> "u1"]],
          [httpMethod |-> "GET", pathParameters |-> On("users")],
          [httpMethod |-> "GET",
           pathParameters |-> [resource |-> "users", user_id |-> ""]],
          [httpMethod |-> "POST", pathParameters |-> On("metrics"), body |-> Cpu],
          [httpMethod |-> "GET",
           pathParameters |-> [resource |-> "metrics", metric_name |-> "cpu"]],
          [httpMethod |-> "GET", pathParameters |-> On("metrics")],
          [httpMethod |-> "GET", pathParameters |-> On("events")],
          [httpMethod |-> "POST", pathParameters |-> On("analytics"), body |-> Click],
          [httpMethod |-> "DELETE", pathParameters |-> On("events")],
          [httpMethod |-> "DELETE", pathParameters |-> On("events"), body |-> NotJson],
          [httpMethod |-> "PUT", pathParameters |-> On("metrics"), body |-> Cpu],
          [httpMethod |-> "POST"],
          EmptyDict }

\* requests to the lambda_handler of the user service
UserRequests ==
    LET Ann == json_dumps([name |-> "Ann", email |-> "ann@example.com"])
        Bob == json_dumps([name |-> "Bob"])
        Of(user_id) == [user_id |-> user_id]
    IN  { [httpMethod |-> "POST", body |-> Ann],
          [httpMethod |-> "POST", pathParameters |-> Of("user-1")],
          [httpMethod |-> "POST", body |-> NotJson],
          [httpMethod |-> "GET", pathParameters |-> Of("user-1")],
          [pathParameters |-> Of("user-1")],
          [httpMethod |-> "GET", pathParameters |-> Of("user-1"), body |-> NotJson],
          [httpMethod |-> "GET"],
          [httpMethod |-> "GET", pathParameters |-> Of("")],
          [httpMethod |-> "PUT", pathParameters |-> Of("user-1"), body |-> Bob],
          [httpMethod |-> "PUT", pathParameters |-> Of("user-1"), body |-> EmptyString],
          [httpMethod |-> "PUT", body |-> Bob],
          [httpMethod |-> "PUT", pathParameters |-> Of("user-1"), body |-> NotJson],
          [httpMethod |-> "DELETE", pathParameters |-> Of("user-1")],
          [httpMethod |-> "DELETE", pathParameters |-> Of("user-1"), body |-> NotJson],
          [httpMethod |-> "PATCH", pathParameters |-> Of("user-1"), body |-> Bob],
          EmptyDict }

\* requests to the lambda_handler of the notification service
NotificationRequests ==
    LET Id(notification_id) == [notification_id |-> notification_id]
        To(recipient) == [recipient |-> recipient]
    IN  { [httpMethod |-> "POST", body |-> json_dumps(WelcomeAnn)],
          [httpMethod |-> "POST"],
          [httpMethod |-> "POST", body |-> NotJson],
          [httpMethod |-> "GET", pathParameters |-> Id("1")],
          [httpMethod |-> "GET", pathParameters |-> Id("1"), body |-> NotJson],
          [httpMethod |-> "GET", queryStringParameters |-> To("ann@example.com")],
          [queryStringParameters |-> To("ann@example.com")],
          [httpMethod |-> "GET"],
          [httpMethod |-> "GET", pathParameters |-> Id(""),
           queryStringParameters |-> To("")],
          [httpMethod |-> "PUT", pathParameters |-> Id("1"),
           body |-> json_dumps(WelcomeAnn)],
          [httpMethod |-> "DELETE", pathParameters |-> Id("1")],
          [httpMethod |-> "DELETE", pathParameters |-> Id("1"), body |-> NotJson],
          [httpMethod |-> "DELETE", queryStringParameters |-> To("ann@example.com"),
           body |-> EmptyString],
          EmptyDict }

-----------------------------------------------------------------------------
(* The service as a state machine *)

Init ==
    /\ events = <<>>
    /\ metrics = EmptyDict
    /\ clock = 0
    /\ last = [op |-> "init", statusCode |-> 0]
    /\ users = EmptyDict
    /\ notifications = sample_notifications
    /\ threads = EmptyDict

\* clock is the wall-clock tick of the latest call that stored a record.  A
\* call runs in that tick or in a later one.
NowValues == {clock, clock + 1}

NumSamples(mets) ==
    LET RECURSIVE Sum(_)
        Sum(S) == IF S = {} THEN 0
                  ELSE LET n == CHOOSE n \in S : TRUE IN Len(mets[n]) + Sum(S \ {n})
    IN  Sum(DOMAIN mets)

\* the model stops storing when the two stores hold MaxRecords records
Fits(evs, mets) == Len(evs) + NumSamples(mets) <= MaxRecords

TrackEvent ==
    \E event_data \in TrackInputs, now \in NowValues :
        LET r == track_event(events, event_data, now)
        IN  /\ Fits(r.events, metrics)
            /\ events' = r.events
            /\ last' = [op |-> "track_event", statusCode |-> r.statusCode]
            /\ clock' = IF r.events # events THEN now ELSE clock
            /\ UNCHANGED <<metrics, otherServices>>

GetEventAnalytics ==
    \E filters \in FilterInputs, now \in NowValues :
        LET r == get_event_analytics(events, filters, now)
        IN  /\ events' = r.events
            /\ last' = [op |-> "get_event_analytics", statusCode |-> r.statusCode]
            /\ UNCHANGED <<metrics, clock, otherServices>>

GetUserAnalytics ==
    \E user_id \in UserIds, now \in NowValues :
        LET r == get_user_analytics(events, user_id, now)
        IN  /\ events' = r.events
            /\ last' = [op |-> "get_user_analytics", statusCode |-> r.statusCode]
            /\ UNCHANGED <<metrics, clock, otherServices>>

RecordMetric ==
    \E metric_data \in MetricInputs, now \in NowValues :
        LET r == record_metric(metrics, metric_data, now)
        IN  /\ Fits(events, r.metrics)
            /\ metrics' = r.metrics
            /\ last' = [op |-> "record_metric", statusCode |-> r.statusCode]
            /\ clock' = IF r.metrics # metrics THEN now ELSE clock
            /\ UNCHANGED <<events, otherServices>>

GetMetricStats ==
    \E metric_name \in MetricNames, now \in NowValues :
        LET r == get_metric_stats(metrics, metric_name, now)
        IN  /\ metrics' = r.metrics
            /\ last' = [op |-> "get_metric_stats", statusCode |-> r.statusCode]
            /\ UNCHANGED <<events, clock, otherServices>>

Next ==
    \/ TrackEvent
    \/ GetEventAnalytics
    \/ GetUserAnalytics
    \/ RecordMetric
    \/ GetMetricStats

Spec == Init /\ [][Next]_vars

\* The event store on its own: the three operations that read or write
\* self.events, which no metric operation touches.
NextEvents ==
    \/ TrackEvent
    \/ GetEventAnalytics
    \/ GetUserAnalytics

SpecEvents == Init /\ [][NextEvents]_vars

\* One metric recorded many times: record_metric on the inputs SampleInputs,
\* all within the current tick, up to MaxSamples samples.
RecordSample ==
    \E metric_data \in SampleInputs :
        LET r == record_metric(metrics, metric_data, clock)
        IN  /\ NumSamples(r.metrics) <= MaxSamples
            /\ metrics' = r.metrics
            /\ last' = [op |-> "record_metric", statusCode |-> r.statusCode]
            /\ UNCHANGED <<events, clock, otherServices>>

NextStats ==
    \/ RecordSample
    \/ GetMetricStats

SpecStats == Init /\ [][NextStats]_vars

\* the clock of the user and the notification service stops at MaxTicks
TicksLeft == {now \in NowValues : now <= MaxTicks}

CreateUser ==
    \E user_data \in CreateInputs, now \in TicksLeft :
        LET r == create_user(users, user_data, now)
        IN  /\ Cardinality(DOMAIN r.users) <= MaxUsers
            /\ users' = r.users
            /\ last' = [op |-> "create_user", statusCode |-> r.statusCode]
            /\ clock' = IF r.users # users THEN now ELSE clock
            /\ UNCHANGED <<events, metrics, notifications, threads>>

GetUser ==
    \E user_id \in QueryUserIds :
        LET r == get_user(users, user_id)
        IN  /\ users' = r.users
            /\ last' = [op |-> "get_user", statusCode |-> r.statusCode]
            /\ UNCHANGED <<events, metrics, clock, notifications, threads>>

UpdateUser ==
    \E user_id \in QueryUserIds, update_data \in UpdateInputs, now \in TicksLeft :
        LET r == update_user(users, user_id, update_data, now)
        IN  /\ users' = r.users
            /\ last' = [op |-> "update_user", statusCode |-> r.statusCode]
            /\ clock' = IF r.users # users THEN now ELSE clock
            /\ UNCHANGED <<events, metrics, notifications, threads>>

NextUsers ==
    \/ CreateUser
    \/ GetUser
    \/ UpdateUser

SpecUsers == Init /\ [][NextUsers]_vars

\* the notifications send_notification has stored
Sent(nots) == DOMAIN nots \ DOMAIN sample_notifications

SendNotification ==
    \E notification_data \in NotificationInputs, now \in TicksLeft, success \in BOOLEAN :
        LET r == send_notification(notifications, notification_data, now, success)
        IN  /\ Cardinality(Sent(r.notifications)) <= MaxSent
            /\ notifications' = r.notifications
            /\ last' = [op |-> "send_notification", statusCode |-> r.statusCode]
            /\ clock' = IF r.notifications # notifications THEN now ELSE clock
            /\ UNCHANGED <<events, metrics, users, threads>>

GetNotificationStatus ==
    \E notification_id \in QueryNotificationIds :
        LET r == get_notification_status(notifications, notification_id)
        IN  /\ notifications' = r.notifications
            /\ last' = [op |-> "get_notification_status", statusCode |-> r.statusCode]
            /\ UNCHANGED <<events, metrics, clock, users, threads>>

GetNotificationsByRecipient ==
    \E recipient \in Recipients :
        LET r == get_notifications_by_recipient(notifications, recipient)
        IN  /\ notifications' = r.notifications
            /\ last' = [op |-> "get_notifications_by_recipient",
                        statusCode |-> r.statusCode]
            /\ UNCHANGED <<events, metrics, clock, users, threads>>

NextNotifications ==
    \/ SendNotification
    \/ GetNotificationStatus
    \/ GetNotificationsByRecipient

SpecNotifications == Init /\ [][NextNotifications]_vars

\* The three lambda_handler entry points, each on the store of its module's
\* service instance.  The model stops storing when the stores hold MaxRecords
\* records between them.
Stored(evs, mets, us, nots) ==
    Len(evs) + NumSamples(mets) + Cardinality(DOMAIN us) + Cardinality(Sent(nots))

AnalyticsLambda ==
    \E event \in AnalyticsRequests, now \in TicksLeft :
        LET r == analytics_lambda_handler(events, metrics, event, now)
        IN  /\ Stored(r.events, r.metrics, users, notifications) <= MaxRecords
            /\ events' = r.events
            /\ metrics' = r.metrics
            /\ last' = [op |-> "analytics.lambda_handler", statusCode |-> r.statusCode]
            /\ clock' = IF <<r.events, r.metrics>> # <<events, metrics>>
                        THEN now ELSE clock
            /\ UNCHANGED otherServices

UserLambda ==
    \E event \in UserRequests, now \in TicksLeft :
        LET r == user_lambda_handler(users, event, now)
        IN  /\ Stored(events, metrics, r.users, notifications) <= MaxRecords
            /\ users' = r.users
            /\ last' = [op |-> "user.lambda_handler", statusCode |-> r.statusCode]
            /\ clock' = IF r.users # users THEN now ELSE clock
            /\ UNCHANGED <<events, metrics, notifications, threads>>

NotificationLambda ==
    \E event \in NotificationRequests, now \in TicksLeft, success \in BOOLEAN :
        LET r == notification_lambda_handler(notifications, event, now, success)
        IN  /\ Stored(events, metrics, users, r.notifications) <= MaxRecords
            /\ notifications' = r.notifications
            /\ last' = [op |-> "notification.lambda_handler",
                        statusCode |-> r.statusCode]
            /\ clock' = IF r.notifications # notifications THEN now ELSE clock
            /\ UNCHANGED <<events, metrics, users, threads>>

NextLambda ==
    \/ AnalyticsLambda
    \/ UserLambda
    \/ NotificationLambda

SpecLambda == Init /\ [][NextLambda]_vars

-----------------------------------------------------------------------------
(* Concurrent requests on the analytics service *)

\* The Flask server handles each request in a thread of its own, all on the
\* one analytics_service.  threads maps a thread to the call it runs: op, the
\* position pc in the code of the call, its argument data and its locals.
\* A step of a thread is what it does without another thread running in
\* between: list.append and the reads of a list are single operations of
\* the interpreter.  The answer of a call is the statusCode of its thread;
\* the calls all run within the current tick of the clock.

\* requests are numbered in the order they arrive
NewThread == Cardinality(DOMAIN threads) + 1

\* str(uuid.uuid4()) in a thread: fresh for each call
thread_uuid4(t) == "uuid-t" \o ToString(t)

Running(t, op, pc) ==
    t \in DOMAIN threads /\ threads[t].op = op /\ threads[t].pc = pc

Idle ==
    [op |-> "idle", pc |-> "done", data |-> EmptyDict, event |-> EmptyDict,
     statusCode |-> 0, total_events |-> 0, seen |-> {}]

\* the fields of Idle, with some of them changed
With(thread, changes) ==
    [k \in DOMAIN thread |-> IF k \in DOMAIN changes THEN changes[k] ELSE thread[k]]

ThreadTrackInputs ==
    { [event_name |-> "click", user_id |-> "u1"],
      Merge([event_name |-> "view", user_id |-> "u2"], AllOptional),
      [user_id |-> "u1"] }

\* POST /events arrives
StartTrack ==
    \E event_data \in ThreadTrackInputs :
        /\ NewThread <= MaxThreads
        /\ threads' = dict_set(threads, NewThread,
                        With(Idle, [op |-> "track_event", pc |-> "validate",
                                    data |-> event_data]))
        /\ UNCHANGED <<events, metrics, clock, last, users, notifications>>

\* lines 30-36: the id and the check of the required fields; the except
\* branch answers 400
TrackValidate ==
    \E t \in DOMAIN threads :
        /\ Running(t, "track_event", "validate")
        /\ IF first_missing(threads[t].data, RequiredEventFields) # None
           THEN threads' = dict_set(threads, t,
                            With(threads[t], [pc |-> "done", statusCode |-> 400]))
           ELSE threads' = dict_set(threads, t, With(threads[t], [pc |-> "build"]))
        /\ UNCHANGED <<events, metrics, clock, last, users, notifications>>

\* lines 38-47: the dict literal is built and bound to the local event
TrackBuild ==
    \E t \in DOMAIN threads :
        /\ Running(t, "track_event", "build")
        /\ threads' = dict_set(threads, t,
                        With(threads[t],
                             [pc |-> "append",
                              event |-> new_event(thread_uuid4(t), threads[t].data, clock)]))
        /\ UNCHANGED <<events, metrics, clock, last, users, notifications>>

\* line 49: self.events.append(event)
TrackAppend ==
    \E t \in DOMAIN threads :
        /\ Running(t, "track_event", "append")
        /\ events' = list_append(events, threads[t].event)
        /\ threads' = dict_set(threads, t, With(threads[t], [pc |-> "return"]))
        /\ UNCHANGED <<metrics, clock, last, users, notifications>>

\* lines 50-58: the answer 200
TrackReturn ==
    \E t \in DOMAIN threads :
        /\ Running(t, "track_event", "return")
        /\ threads' = dict_set(threads, t,
                        With(threads[t], [pc |-> "done", statusCode |-> 200]))
        /\ UNCHANGED <<events, metrics, clock, last, users, notifications>>

\* the reads get_event_analytics makes of the list when no filter is given:
\* filtered_events is self.events itself (line 71), read at lines 92, 93,
\* 96, 99, 101 and 106
QueryPasses ==
    <<"total_events", "unique_users", "event_counts", "device_distribution",
      "platform_distribution", "hourly_events">>

\* GET /analytics arrives
StartQuery ==
    /\ NewThread <= MaxThreads
    /\ threads' = dict_set(threads, NewThread,
                    With(Idle, [op |-> "get_event_analytics", pc |-> QueryPasses[1]]))
    /\ UNCHANGED <<events, metrics, clock, last, users, notifications>>

\* line 92: total_events = len(filtered_events)
QueryLen ==
    \E t \in DOMAIN threads :
        /\ Running(t, "get_event_analytics", "total_events")
        /\ threads' = dict_set(threads, t,
                        With(threads[t], [pc |-> QueryPasses[2],
                                          total_events |-> Len(events)]))
        /\ UNCHANGED <<events, metrics, clock, last, users, notifications>>

\* lines 93-110: one pass over the list.  The list only grows and a stored
\* event is never changed, so the pass reads the events the list holds when
\* the pass ends; seen collects the events the call has read.
QueryPass ==
    \E t \in DOMAIN threads, i \in 2..Len(QueryPasses) :
        /\ Running(t, "get_event_analytics", QueryPasses[i])
        /\ threads' = dict_set(threads, t,
                        With(threads[t],
                             [pc |-> IF i < Len(QueryPasses)
                                     THEN QueryPasses[i + 1] ELSE "return",
                              seen |-> threads[t].seen \cup Range(events)]))
        /\ UNCHANGED <<events, metrics, clock, last, users, notifications>>

\* lines 112-130: the answer 200
QueryReturn ==
    \E t \in DOMAIN threads :
        /\ Running(t, "get_event_analytics", "return")
        /\ threads' = dict_set(threads, t,
                        With(threads[t], [pc |-> "done", statusCode |-> 200]))
        /\ UNCHANGED <<events, metrics, clock, last, users, notifications>>

NextConcurrentEvents ==
    \/ StartTrack
    \/ TrackValidate
    \/ TrackBuild
    \/ TrackAppend
    \/ TrackReturn
    \/ StartQuery
    \/ QueryLen
    \/ QueryPass
    \/ QueryReturn

SpecConcurrentEvents == Init /\ [][NextConcurrentEvents]_vars

-----------------------------------------------------------------------------
(* Concurrent requests on the user service *)

\* PUT /users/<user_id> requests handled by threads on the one user_service.
\* A thread of update_user keeps the values it has read for the dict literal
\* of lines 100-104 in its locals name and email until user.update writes
\* them; another thread may run between any two of its steps.
NoUpdate ==
    [op |-> "update_user", pc |-> "lookup", user_id |-> None, data |-> EmptyDict,
     name |-> None, email |-> None, statusCode |-> 0]

ThreadUpdateInputs == {[name |-> "Bob"], [email |-> "bob@example.com"]}

\* PUT /users/<user_id> arrives
StartUpdate ==
    \E user_id \in DOMAIN users \cup {"nobody"}, update_data \in ThreadUpdateInputs :
        /\ NewThread <= MaxThreads
        /\ threads' = dict_set(threads, NewThread,
                        With(NoUpdate, [user_id |-> user_id, data |-> update_data]))
        /\ UNCHANGED <<events, metrics, clock, last, users, notifications>>

\* lines 91-99: 404 for an unknown id, else user = self.users[user_id]
UpdateLookup ==
    \E t \in DOMAIN threads :
        /\ Running(t, "update_user", "lookup")
        /\ IF threads[t].user_id \notin DOMAIN users
           THEN threads' = dict_set(threads, t,
                            With(threads[t], [pc |-> "done", statusCode |-> 404]))
           ELSE threads' = dict_set(threads, t, With(threads[t], [pc |-> "name"]))
        /\ UNCHANGED <<events, metrics, clock, last, users, notifications>>

\* line 101: update_data.get('name', user['name'])
UpdateReadName ==
    \E t \in DOMAIN threads :
        /\ Running(t, "update_user", "name")
        /\ threads' = dict_set(threads, t,
                        With(threads[t],
                             [pc |-> "email",
                              name |-> Get(threads[t].data, "name",
                                           users[threads[t].user_id].name)]))
        /\ UNCHANGED <<events, metrics, clock, last, users, notifications>>

\* line 102: update_data.get('email', user['email'])
UpdateReadEmail ==
    \E t \in DOMAIN threads :
        /\ Running(t, "update_user", "email")
        /\ threads' = dict_set(threads, t,
                        With(threads[t],
                             [pc |-> "update",
                              email |-> Get(threads[t].data, "email",
                                            users[threads[t].user_id].email)]))
        /\ UNCHANGED <<events, metrics, clock, last, users, notifications>>

\* lines 100-106: user.update({...}) with the values read, and the store of
\* the user under its id
UpdateWrite ==
    \E t \in DOMAIN threads :
        LET user_id == threads[t].user_id
            read == [name |-> threads[t].name, email |-> threads[t].email]
        IN  /\ Running(t, "update_user", "update")
            /\ users' = dict_set(users, user_id,
                                 updated_user(users[user_id], read, clock))
            /\ threads' = dict_set(threads, t, With(threads[t], [pc |-> "return"]))
            /\ UNCHANGED <<events, metrics, clock, last, notifications>>

\* lines 108-116: the answer 200
UpdateReturn ==
    \E t \in DOMAIN threads :
        /\ Running(t, "update_user", "return")
        /\ threads' = dict_set(threads, t,
                        With(threads[t], [pc |-> "done", statusCode |-> 200]))
        /\ UNCHANGED <<events, metrics, clock, last, users, notifications>>

NextConcurrentUpdates ==
    \/ CreateUser
    \/ StartUpdate
    \/ UpdateLookup
    \/ UpdateReadName
    \/ UpdateReadEmail
    \/ UpdateWrite
    \/ UpdateReturn

SpecConcurrentUpdates == Init /\ [][NextConcurrentUpdates]_vars

-----------------------------------------------------------------------------
(* Properties of track_event *)

LastEvent(evs) == evs[Len(evs)]

Ids(evs) == {evs[i].id : i \in 1..Len(evs)}

Time(e) == fromisoformat(e.timestamp).t

\* C1: track_event on an input that lacks event_name or user_id answers 400
\* with 'Missing required field: <name>', naming the first missing field in
\* the order event_name, user_id, and leaves the event store as it was.
C1_MissingFieldRejected ==
    \A event_data \in TrackInputs, now \in NowValues :
        LET r == track_event(events, event_data, now)
            name == IF "event_name" \notin DOMAIN event_data
                    THEN "event_name" ELSE "user_id"
        IN  {"event_name", "user_id"} \ DOMAIN event_data # {} =>
                /\ r.statusCode = 400
                /\ r.body = [error |-> "Missing required field: " \o name]
                /\ r.events = events

\* a track_event that lacked a field was answered 400 on a store holding events
C1_Witness ==
    /\ last = [op |-> "track_event", statusCode |-> 400]
    /\ Len(events) >= 1

\* C2: the event store is append-only: a step of any operation leaves the
\* store as it was, except a successful track_event, which adds exactly one
\* event at the end and leaves the events before it unchanged and in order.
C2_AppendOnly ==
    [][/\ \/ events' = events
          \/ /\ last'.op = "track_event"
             /\ last'.statusCode = 200
             /\ Len(events') = Len(events) + 1
             /\ SubSeq(events', 1, Len(events)) = events
       /\ (last'.op = "track_event" /\ last'.statusCode = 200)
              => Len(events') = Len(events) + 1]_vars

\* two events are stored and a query ran after them
C2_Witness ==
    /\ Len(events) = 2
    /\ last.op \in {"get_event_analytics", "get_user_analytics", "get_metric_stats"}

C4_StoredFieldsNonEmpty ==
    \A i \in 1..Len(events) :
        /\ events[i].id \notin {"", None}
        /\ events[i].event_name \notin {"", None}
        /\ events[i].user_id \notin {"", None}

\* C5: track_event and record_metric fully apply or not at all: a call
\* answered with a status other than 200 leaves both stores as they were, and
\* a call answered 200 appended exactly one record.
C5_AllOrNothing ==
    [][last'.op \in {"track_event", "record_metric"} =>
          IF last'.statusCode # 200
          THEN events' = events /\ metrics' = metrics
          ELSE Len(events') + NumSamples(metrics')
                  = Len(events) + NumSamples(metrics) + 1]_vars

OptionalDefault(key) ==
    CASE key = "properties"  -> {}
      [] key = "session_id"  -> None
      [] key = "device_type" -> "unknown"
      [] key = "platform"    -> "unknown"

\* C6: the event stored by a successful track_event carries the event_name,
\* user_id, properties, session_id, device_type and platform supplied; an
\* omitted device_type or platform is 'unknown', omitted properties are the
\* empty mapping and an omitted session_id is None.
C6_RoundTrip ==
    \A event_data \in TrackInputs, now \in NowValues :
        LET r == track_event(events, event_data, now)
            e == LastEvent(r.events)
        IN  r.statusCode = 200 =>
                /\ Len(r.events) = Len(events) + 1
                /\ e.event_name = event_data["event_name"]
                /\ e.user_id = event_data["user_id"]
                /\ \A key \in {"properties", "session_id", "device_type", "platform"} :
                      e[key] = IF key \in DOMAIN event_data
                               THEN event_data[key] ELSE OptionalDefault(key)

\* the store holds an event tracked without the optional fields and one
\* tracked with all of them
C6_Witness ==
    /\ last = [op |-> "track_event", statusCode |-> 200]
    /\ \E i, j \in 1..Len(events) :
          /\ events[i].session_id = None /\ events[i].properties = {}
          /\ events[j].session_id = "s1" /\ events[j].properties # {}

-----------------------------------------------------------------------------
(* Properties of the queries *)

QueryOps == {"get_event_analytics", "get_user_analytics", "get_metric_stats"}

\* C7: get_event_analytics, get_user_analytics and get_metric_stats leave the
\* event store and the metric store unchanged.
C7_QueriesReadOnly ==
    [][last'.op \in QueryOps => events' = events /\ metrics' = metrics]_vars

\* a metric that was never recorded was queried while both stores held records
C7_Witness ==
    /\ last = [op |-> "get_metric_stats", statusCode |-> 404]
    /\ Len(events) >= 1
    /\ DOMAIN metrics # {}

\* the criteria a query supplies, combined with AND
Matches(e, filters) ==
    /\ "event_name" \in DOMAIN filters => e.event_name = filters["event_name"]
    /\ "user_id" \in DOMAIN filters => e.user_id = filters["user_id"]
    /\ "date_from" \in DOMAIN filters => Time(e) >= filters["date_from"].t
    /\ "date_to" \in DOMAIN filters => Time(e) <= filters["date_to"].t

Matching(evs, filters) ==
    LET Keep(e) == Matches(e, filters) IN SelectSeq(evs, Keep)

\* C8: a get_event_analytics that answers aggregates exactly the stored events
\* that satisfy every supplied criterion, an omitted criterion imposing no
\* constraint; with no filters or an empty filter mapping it answers 200 and
\* total_events is the length of the store.
C8_FiltersAreConjunction ==
    \A filters \in FilterInputs \cup {EmptyDict}, now \in NowValues :
        LET r == get_event_analytics(events, filters, now)
        IN  /\ r.statusCode = 200 =>
                /\ apply_filters(events, filters).events = Matching(events, filters)
                /\ r.body.analytics = aggregate(Matching(events, filters), filters, now)
                /\ r.body.analytics.total_events = Len(Matching(events, filters))
            /\ filters \in {NoFilters, EmptyDict} =>
                /\ r.statusCode = 200
                /\ r.body.analytics.total_events = Len(events)

\* a query answered 200 while the store held two click events of two users,
\* of which the filter event_name = click, user_id = u1 keeps one
C8_Witness ==
    /\ last = [op |-> "get_event_analytics", statusCode |-> 200]
    /\ Len(events) = 2
    /\ events[1].event_name = "click" /\ events[2].event_name = "click"
    /\ events[1].user_id # events[2].user_id
    /\ Len(Matching(events, [event_name |-> "click", user_id |-> "u1"])) = 1

WellFormedDates == {d \in BoundaryDates : d.form # "bad"}

\* C9: date_from and date_to are inclusive bounds: for every well-formed
\* boundary timestamp the query answers 200 and keeps exactly the events
\* whose timestamp is not earlier than date_from, or not later than date_to.
C9_InclusiveDateBounds ==
    \A d \in WellFormedDates, now \in NowValues :
        LET from == get_event_analytics(events, [date_from |-> d], now)
            to   == get_event_analytics(events, [date_to |-> d], now)
        IN  /\ from.statusCode = 200
            /\ from.body.analytics.total_events
                  = Cardinality({i \in 1..Len(events) : Time(events[i]) >= d.t})
            /\ to.statusCode = 200
            /\ to.body.analytics.total_events
                  = Cardinality({i \in 1..Len(events) : Time(events[i]) <= d.t})

\* C10: a query whose date_from or date_to is a malformed timestamp is
\* answered as a client error (400), like a missing required field.
C10_MalformedDateIsClientError ==
    \A filters \in FilterInputs, now \in NowValues :
        (\E key \in {"date_from", "date_to"} :
            key \in DOMAIN filters /\ filters[key].form = "bad")
        => get_event_analytics(events, filters, now).statusCode = 400

-----------------------------------------------------------------------------
(* Properties of the aggregates of get_event_analytics *)

\* the number of positions of s that hold v
Occurrences(s, v) == Cardinality({i \in 1..Len(s) : s[i] = v})

\* the sum of the counts of a mapping value -> count
SumCounts(counts) ==
    LET RECURSIVE Sum(_)
        Sum(S) == IF S = {} THEN 0
                  ELSE LET v == CHOOSE v \in S : TRUE IN counts[v] + Sum(S \ {v})
    IN  Sum(DOMAIN counts)

\* the three distributions of the result and the event field each one counts
Distributions ==
    {<<"event_counts", "event_name">>,
     <<"device_distribution", "device_type">>,
     <<"platform_distribution", "platform">>}

\* C11: in the result of a get_event_analytics that answers, total_events is
\* the number of filtered events, unique_users the number of distinct user_id
\* values among them, and event_counts, device_distribution and
\* platform_distribution each map exactly the values that occur to the number
\* of their occurrences, so the counts of each mapping sum to total_events.
C11_AggregateCounts ==
    \A filters \in FilterInputs, now \in NowValues :
        LET r == get_event_analytics(events, filters, now)
            filtered == Matching(events, filters)
            a == r.body.analytics
        IN  r.statusCode = 200 =>
                /\ a.total_events = Len(filtered)
                /\ a.unique_users
                      = Cardinality({filtered[i].user_id : i \in 1..Len(filtered)})
                /\ \A d \in Distributions :
                      LET counts == a[d[1]]
                          column == Field(filtered, d[2])
                      IN  /\ DOMAIN counts = Range(column)
                          /\ \A v \in DOMAIN counts : counts[v] = Occurrences(column, v)
                          /\ SumCounts(counts) = a.total_events

\* a query answered 200 on a store of two events with distinct names of one
\* user: total_events 2, unique_users 1, two names each counted once
C11_Witness ==
    /\ last = [op |-> "get_event_analytics", statusCode |-> 200]
    /\ Len(events) = 2
    /\ events[1].event_name # events[2].event_name
    /\ events[1].user_id = events[2].user_id
    /\ LET a == get_event_analytics(events, NoFilters, clock).body.analytics
       IN  /\ a.total_events = 2
           /\ a.unique_users = 1
           /\ \A v \in DOMAIN a.event_counts : a.event_counts[v] = 1

\* filters whose date bounds, if any, are well-formed timestamps
NoMalformedDate(filters) ==
    \A key \in {"date_from", "date_to"} :
        key \in DOMAIN filters => filters[key].form # "bad"

C13_HourlyWindow ==
    \A filters \in FilterInputs, now \in NowValues :
        LET r == get_event_analytics(events, filters, now)
            filtered == Matching(events, filters)
            a == r.body.analytics
            recent == {i \in 1..Len(filtered) : now - Time(filtered[i]) <= Hours24}
        IN  r.statusCode = 200 =>
                /\ DOMAIN a.hourly_events_24h = {Time(filtered[i]) : i \in recent}
                /\ \A h \in DOMAIN a.hourly_events_24h :
                      a.hourly_events_24h[h]
                          = Cardinality({i \in recent : Time(filtered[i]) = h})
                /\ SumCounts(a.hourly_events_24h) = Cardinality(recent)
                /\ SumCounts(a.hourly_events_24h) <= a.total_events

\* a query ran more than 24 hours after the first of two events and within 24
\* hours of the second: total_events 2 and one bucket holding one event
C13_Witness ==
    /\ last = [op |-> "get_event_analytics", statusCode |-> 200]
    /\ Len(events) = 2
    /\ Time(events[1]) = 0 /\ Time(events[2]) = 1
    /\ LET a == get_event_analytics(events, NoFilters, clock + 1).body.analytics
       IN  /\ a.total_events = 2
           /\ SumCounts(a.hourly_events_24h) = 1

-----------------------------------------------------------------------------
(* Properties of record_metric and of the metric store *)

\* a value that is no number: a string that is no numeral
NotANumber(x) == "str" \in DOMAIN x /\ x.str \notin NumeralStrings

\* the input lacks metric_name, lacks value, or its value is no number
InvalidMetric(metric_data) ==
    \/ "metric_name" \notin DOMAIN metric_data
    \/ "value" \notin DOMAIN metric_data
    \/ NotANumber(metric_data["value"])

\* the status get_metric_stats gives for a name on a metric store
StatsStatus(mets, name) == get_metric_stats(mets, name, clock).statusCode

\* C14: record_metric on an input that lacks metric_name, lacks value, or has
\* a value that is no number answers 400, appends no sample, and makes no new
\* metric name known to get_metric_stats.
C14_InvalidMetricRejected ==
    \A metric_data \in MetricInputs, now \in NowValues :
        LET r == record_metric(metrics, metric_data, now)
        IN  InvalidMetric(metric_data) =>
                /\ r.statusCode = 400
                /\ r.metrics = metrics
                /\ \A name \in MetricNames :
                      StatsStatus(r.metrics, name) = StatsStatus(metrics, name)

\* an invalid input was answered 400 on a store that holds a sample of mem
\* and none of cpu, the name two of the invalid inputs carry
C14_Witness ==
    /\ last = [op |-> "record_metric", statusCode |-> 400]
    /\ DOMAIN metrics = {"mem"}
    /\ StatsStatus(metrics, "cpu") = 404

\* the samples stored under a name, none if the name was never recorded
SamplesOf(mets, name) == IF name \in DOMAIN mets THEN mets[name] ELSE <<>>

\* C15: the samples of each metric name form one sequence of samples of that
\* name, which holds exactly the successfully recorded ones in recording
\* order: a step never reorders or deletes a sample, only a record_metric
\* answered 200 changes the metric store, and it appends one sample to the
\* sequence of one name and leaves every other sequence and the event store
\* unchanged.
C15_SamplesAppendOnly ==
    [][LET names == DOMAIN metrics \cup DOMAIN metrics'
           grown == {n \in names :
                        Len(SamplesOf(metrics', n)) = Len(SamplesOf(metrics, n)) + 1}
       IN  /\ \A n \in names :
                 /\ Len(SamplesOf(metrics', n)) >= Len(SamplesOf(metrics, n))
                 /\ SubSeq(SamplesOf(metrics', n), 1, Len(SamplesOf(metrics, n)))
                       = SamplesOf(metrics, n)
                 /\ \A i \in 1..Len(SamplesOf(metrics', n)) :
                       SamplesOf(metrics', n)[i].metric_name = n
           /\ metrics' # metrics =>
                 last' = [op |-> "record_metric", statusCode |-> 200]
           /\ last' = [op |-> "record_metric", statusCode |-> 200] =>
                 /\ Cardinality(grown) = 1
                 /\ \A n \in names \ grown : SamplesOf(metrics', n) = SamplesOf(metrics, n)
                 /\ events' = events]_vars

\* C16: get_metric_stats(name) answers 404 'Metric not found' if and only if
\* no record_metric for that name has succeeded: it answers 404 for every
\* name at the start, and a step turns the answer for a name from 404 into
\* 200 exactly when it is a record_metric answered 200 that appended a sample
\* of that name; queries and failed record_metric calls never change it, and
\* 200 never turns back into 404.
C16_NotFoundIffNeverRecorded ==
    /\ \A name \in MetricNames :
          get_metric_stats(metrics, name, clock).body = [error |-> "Metric not found"]
    /\ [][\A name \in MetricNames :
            LET recorded ==
                    /\ last' = [op |-> "record_metric", statusCode |-> 200]
                    /\ Len(SamplesOf(metrics', name)) > Len(SamplesOf(metrics, name))
            IN  /\ StatsStatus(metrics', name) \in {200, 404}
                /\ StatsStatus(metrics', name) = 200
                      <=> (StatsStatus(metrics, name) = 200 \/ recorded)
                /\ StatsStatus(metrics', name) = 404 =>
                      get_metric_stats(metrics', name, clock').body
                          = [error |-> "Metric not found"]]_vars

-----------------------------------------------------------------------------
(* Properties of get_metric_stats *)

\* the values recorded under a name, in recording order
ValuesOf(mets, name) == Field(SamplesOf(mets, name), "value")

\* how many of the values are smaller, or larger, than v
Below(values, v) == Cardinality({i \in 1..Len(values) : values[i] < v})

Above(values, v) == Cardinality({i \in 1..Len(values) : values[i] > v})

\* the value at rank k of the values in ascending order: fewer than k values
\* are smaller and at most Len(values) - k are larger
Ranked(values, k) ==
    CHOOSE v \in Range(values) :
        Below(values, v) < k /\ Above(values, v) <= Len(values) - k

\* C17: for every metric with recorded samples, get_metric_stats answers 200
\* with count the number of samples, min and max the smallest and largest
\* sample, sum their total, mean = sum / count, and median the middle value
\* of an odd number of samples and the average of the two middle values of
\* an even number; samples 100, 200, 300, 400, 500 give count 5, min 100,
\* max 500, mean 300, median 300, sum 1500.
C17_Statistics ==
    \A name \in DOMAIN metrics, now \in NowValues :
        LET r == get_metric_stats(metrics, name, now)
            stats == r.body.metric_stats
            values == ValuesOf(metrics, name)
            n == Len(values)
        IN  /\ r.statusCode = 200
            /\ stats.count = n
            /\ stats.min \in Range(values) /\ \A i \in 1..n : stats.min <= values[i]
            /\ stats.max \in Range(values) /\ \A i \in 1..n : stats.max >= values[i]
            /\ stats.sum = SumSeq(values)
            /\ stats.mean.num * stats.count = stats.sum * stats.mean.den
            /\ IF n % 2 = 1
               THEN stats.median.num
                       = Ranked(values, (n + 1) \div 2) * stats.median.den
               ELSE 2 * stats.median.num
                       = (Ranked(values, n \div 2) + Ranked(values, (n \div 2) + 1))
                            * stats.median.den
            /\ values = <<100, 200, 300, 400, 500>> =>
                  /\ stats.count = 5 /\ stats.min = 100 /\ stats.max = 500
                  /\ stats.sum = 1500
                  /\ stats.mean.num = 300 * stats.mean.den
                  /\ stats.median.num = 300 * stats.median.den

\* the statistics of the samples 100, 200, 300, 400, 500 were queried
C17_Witness ==
    /\ last = [op |-> "get_metric_stats", statusCode |-> 200]
    /\ ValuesOf(metrics, "response_time") = <<100, 200, 300, 400, 500>>

\* C18: the result of a get_metric_stats answered 200 has std_dev if and
\* only if the metric has more than one sample; with exactly one sample the
\* query is still answered 200, without std_dev.
C18_StdDevPresence ==
    \A name \in MetricNames, now \in NowValues :
        LET r == get_metric_stats(metrics, name, now)
            n == Len(SamplesOf(metrics, name))
        IN  /\ r.statusCode = 200 =>
                  ("std_dev" \in DOMAIN r.body.metric_stats <=> n > 1)
            /\ n = 1 =>
                  /\ r.statusCode = 200
                  /\ "std_dev" \notin DOMAIN r.body.metric_stats

\* a metric with exactly one sample was queried and answered 200
C18_Witness ==
    /\ last = [op |-> "get_metric_stats", statusCode |-> 200]
    /\ Len(SamplesOf(metrics, "response_time")) = 1

-----------------------------------------------------------------------------
(* Properties of get_user_analytics *)

\* the positions of the stored events of a user
EventsOfUser(user_id) == {i \in 1..Len(events) : events[i].user_id = user_id}

\* C19: get_user_analytics(user_id) answers 404 'No events found for user'
\* exactly when the store holds no event of that user_id, and 200 as soon as
\* it holds one; it never answers 500.
C19_UnknownUserNotFound ==
    \A user_id \in UserIds, now \in NowValues :
        LET r == get_user_analytics(events, user_id, now)
        IN  IF EventsOfUser(user_id) = {}
            THEN /\ r.statusCode = 404
                 /\ r.body = [error |-> "No events found for user"]
            ELSE /\ r.statusCode = 200
                 /\ r.body.user_analytics.user_id = user_id
                 /\ r.body.user_analytics.total_events
                       = Cardinality(EventsOfUser(user_id))

\* a user without events was queried while the store held events of another
\* user, who is answered 200
C19_Witness ==
    /\ last = [op |-> "get_user_analytics", statusCode |-> 404]
    /\ EventsOfUser("u1") # {}
    /\ EventsOfUser("u2") = {}
    /\ get_user_analytics(events, "u1", clock).statusCode = 200

\* the total_sessions get_user_analytics reports for a user with events
TotalSessions(user_id, now) ==
    get_user_analytics(events, user_id, now).body.user_analytics.total_sessions

\* C20 as stated: total_sessions is the number of distinct session_id values
\* among the user's events that carry a session_id: an event tracked without
\* session_id adds nothing and every session_id supplied at ingest is
\* counted once.
C20_SuppliedSessionsCounted ==
    \A user_id \in UserIds, now \in NowValues :
        EventsOfUser(user_id) # {} =>
            TotalSessions(user_id, now)
                = Cardinality({events[i].session_id : i \in EventsOfUser(user_id)}
                                  \ {None})

\* C20 as the code has it: total_sessions is the number of distinct non-empty
\* session_id values among the user's events; an event tracked without
\* session_id, or with the empty string as session_id, adds nothing.
C20_NonEmptySessionsCounted ==
    \A user_id \in UserIds, now \in NowValues :
        EventsOfUser(user_id) # {} =>
            TotalSessions(user_id, now)
                = Cardinality({events[i].session_id : i \in EventsOfUser(user_id)}
                                  \ {None, ""})

\* a user with one event tracked without session_id and one tracked with
\* session s1 was queried: total_sessions is 1
C20_Witness ==
    /\ last = [op |-> "get_user_analytics", statusCode |-> 200]
    /\ {events[i].session_id : i \in EventsOfUser("u1")} = {None, "s1"}
    /\ TotalSessions("u1", clock) = 1

-----------------------------------------------------------------------------
(* Properties of the notification service *)

\* an input send_notification accepts: the three required fields, a type of
\* the enum, a known template, and a value for every field of the template
ValidNotification(data) ==
    /\ {"recipient", "type", "template"} \subseteq DOMAIN data
    /\ data["type"] \in {"email", "sms", "push"}
    /\ data["template"] \in {"welcome", "password_reset", "order_confirmation"}
    /\ Range(templates[data["template"]].subject.fields)
          \cup Range(templates[data["template"]].body.fields)
             \subseteq DOMAIN Get(data, "variables", EmptyDict)

\* a notification in a final state: sent, with sent_at a timestamp and no
\* error_message, or failed, with the error_message and no sent_at
FinalStatus(n) ==
    IF n.status = "sent"
    THEN n.error_message = None /\ DOMAIN n.sent_at = {"form", "t"}
    ELSE /\ n.status = "failed"
         /\ n.error_message = "Failed to send notification"
         /\ n.sent_at = None

FirstLacking(data) ==
    IF "recipient" \notin DOMAIN data THEN "recipient"
    ELSE IF "type" \notin DOMAIN data THEN "type"
    ELSE IF "template" \notin DOMAIN data THEN "template"
    ELSE None

\* C23: send_notification answers 400 and stores nothing when the input lacks
\* recipient, type or template ('Missing required field: <name>'), else when
\* the type is none of email, sms, push ('Invalid notification type: <type>'),
\* else when the template is not known ('Template not found: <template>'),
\* the checks applying in that order; every rejection leaves the
\* notification store unchanged.
C23_RejectionsInOrder ==
    \A data \in NotificationInputs, now \in NowValues, success \in BOOLEAN :
        LET r == send_notification(notifications, data, now, success)
            Rejects(error) == /\ r.statusCode = 400
                              /\ r.body = [error |-> error]
                              /\ r.notifications = notifications
        IN  /\ r.statusCode # 200 => r.notifications = notifications
            /\ IF FirstLacking(data) # None
               THEN Rejects("Missing required field: " \o FirstLacking(data))
               ELSE IF data["type"] \notin {"email", "sms", "push"}
               THEN Rejects("Invalid notification type: " \o data["type"])
               ELSE data["template"]
                        \notin {"welcome", "password_reset", "order_confirmation"}
                    => Rejects("Template not found: " \o data["template"])

\* an input was rejected while the store held a notification sent before
C23_Witness ==
    /\ last = [op |-> "send_notification", statusCode |-> 400]
    /\ Sent(notifications) # {}

\* the answer of get_notification_status for a stored notification
Found(nots, id) ==
    /\ get_notification_status(nots, id).statusCode = 200
    /\ get_notification_status(nots, id).body = [notification |-> nots[id]]
    /\ nots[id].id = id

NotFound(nots, id) ==
    /\ get_notification_status(nots, id).statusCode = 404
    /\ get_notification_status(nots, id).body = [error |-> "Notification not found"]

\* C24 as stated: get_notification_status answers 200 with the notification
\* of that id for every id a send_notification has returned, and 404
\* 'Notification not found' for every id no send_notification has issued.
C24_NeverIssuedNotFound ==
    \A id \in QueryNotificationIds \cup DOMAIN notifications :
        IF id \in Sent(notifications)
        THEN Found(notifications, id)
        ELSE NotFound(notifications, id)

\* C24 as the code has it: get_notification_status answers 200 with the
\* notification of that id, unchanged with its status by every later step,
\* for every id a send_notification has returned and for the ids of the
\* three sample notifications the store starts with; it answers 404
\* 'Notification not found' for every other id.
C24_StoredIdsFound ==
    [][/\ \A id \in DOMAIN notifications :
             /\ id \in DOMAIN notifications'
             /\ notifications'[id] = notifications[id]
             /\ Found(notifications', id)
       /\ \A id \in DOMAIN notifications' : Found(notifications', id)
       /\ \A id \in QueryNotificationIds \ DOMAIN notifications' :
             NotFound(notifications', id)
       /\ DOMAIN notifications' \ DOMAIN notifications # {} =>
             last' = [op |-> "send_notification", statusCode |-> 200]]_vars

\* the status of a notification sent earlier was looked up after a later
\* send_notification, while another id had not been issued yet
C24_Witness ==
    /\ last = [op |-> "get_notification_status", statusCode |-> 200]
    /\ Sent(notifications) = {"notification-4", "notification-5"}
    /\ Found(notifications, "notification-4")
    /\ NotFound(notifications, "nosuch")

-----------------------------------------------------------------------------
(* Properties of the user service *)

\* the value of a field after an update: the update's if it names the
\* field, the previous one otherwise
AfterUpdate(old, update_data, field) ==
    IF field \in DOMAIN update_data THEN update_data[field] ELSE old[field]

\* C25: update_user on an existing user answers 200 and changes only the
\* fields present in the update (name, email) and updated_at: an omitted
\* field keeps its value, id and created_at stay, and every other user stays
\* as it was; on an unknown id it answers 404 'User not found' and leaves
\* the user store unchanged.
C25_UpdateFrame ==
    \A user_id \in QueryUserIds, update_data \in UpdateInputs, now \in NowValues :
        LET r == update_user(users, user_id, update_data, now)
        IN  IF user_id \in DOMAIN users
            THEN /\ r.statusCode = 200
                 /\ DOMAIN r.users = DOMAIN users
                 /\ \A other \in DOMAIN users \ {user_id} : r.users[other] = users[other]
                 /\ r.users[user_id].id = users[user_id].id
                 /\ r.users[user_id].created_at = users[user_id].created_at
                 /\ r.users[user_id].name = AfterUpdate(users[user_id], update_data, "name")
                 /\ r.users[user_id].email = AfterUpdate(users[user_id], update_data, "email")
                 /\ DOMAIN r.users[user_id] = DOMAIN users[user_id]
                 /\ r.body.user = r.users[user_id]
            ELSE /\ r.statusCode = 404
                 /\ r.body = [error |-> "User not found"]
                 /\ r.users = users

\* a user's name was updated in a later tick than its creation, its email
\* left as created, while the store holds a second user
C25_Witness ==
    /\ last = [op |-> "update_user", statusCode |-> 200]
    /\ Cardinality(DOMAIN users) = 2
    /\ \E id \in DOMAIN users :
          /\ users[id].name = "Bob"
          /\ users[id].email = "ann@example.com"
          /\ users[id].updated_at # users[id].created_at

\* the field is missing from the input or empty
MissingOrEmpty(user_data, field) ==
    field \notin DOMAIN user_data \/ user_data[field] \in {None, ""}

\* C26: create_user with a missing or empty name or email answers 400 'Name
\* and email are required' and leaves the user store unchanged; otherwise it
\* answers 200, stores exactly one new user under an id no existing user
\* has, and get_user on that id answers 200 with the same name and email.
C26_CreateValidated ==
    \A user_data \in CreateInputs, now \in NowValues :
        LET r == create_user(users, user_data, now)
            id == r.body.user.id
        IN  IF MissingOrEmpty(user_data, "name") \/ MissingOrEmpty(user_data, "email")
            THEN /\ r.statusCode = 400
                 /\ r.body = [error |-> "Name and email are required"]
                 /\ r.users = users
            ELSE /\ r.statusCode = 200
                 /\ id \notin DOMAIN users
                 /\ DOMAIN r.users = DOMAIN users \cup {id}
                 /\ \A other \in DOMAIN users : r.users[other] = users[other]
                 /\ get_user(r.users, id).statusCode = 200
                 /\ get_user(r.users, id).body.user = r.body.user
                 /\ get_user(r.users, id).body.user.name = user_data["name"]
                 /\ get_user(r.users, id).body.user.email = user_data["email"]

\* a second user was created and both are found under their own ids
C26_Witness ==
    /\ last = [op |-> "create_user", statusCode |-> 200]
    /\ Cardinality(DOMAIN users) = 2
    /\ \A id \in DOMAIN users : get_user(users, id).body.user.id = id

\* C29: every user in the store has a non-empty name and a non-empty email.
C29_NameAndEmailKept ==
    \A id \in DOMAIN users :
        /\ users[id].name \notin {None, ""}
        /\ users[id].email \notin {None, ""}

-----------------------------------------------------------------------------
(* The two query paths of the analytics service *)

\* C28: for every user_id with a stored event, get_user_analytics(user_id)
\* reports the same total_events and the same event_counts as
\* get_event_analytics with the single filter user_id, and its
\* activity_by_day counts sum to that total_events.
C28_QueryPathsAgree ==
    \A user_id \in UserIds, now \in NowValues :
        LET by_user   == get_user_analytics(events, user_id, now)
            by_filter == get_event_analytics(events, [user_id |-> user_id], now)
        IN  EventsOfUser(user_id) # {} =>
                /\ by_user.statusCode = 200
                /\ by_filter.statusCode = 200
                /\ by_user.body.user_analytics.total_events
                      = by_filter.body.analytics.total_events
                /\ by_user.body.user_analytics.event_counts
                      = by_filter.body.analytics.event_counts
                /\ SumCounts(by_user.body.user_analytics.activity_by_day)
                      = by_filter.body.analytics.total_events

\* the store holds events of two users, so that the filter leaves some events
\* out, and a user with events was queried
C28_Witness ==
    /\ last = [op |-> "get_user_analytics", statusCode |-> 200]
    /\ EventsOfUser("u1") # {}
    /\ EventsOfUser("u2") # {}

-----------------------------------------------------------------------------
(* Properties of lambda_handler *)

\* the routes of each service: method, resource, and the parameter the route
\* needs (None when it needs none)
AnalyticsRoutes ==
    { <<"POST", "events", None>>, <<"GET", "analytics", None>>,
      <<"GET", "users", "user_id">>, <<"POST", "metrics", None>>,
      <<"GET", "metrics", "metric_name">> }

Method(event) == IF "httpMethod" \in DOMAIN event THEN event.httpMethod ELSE "GET"

\* the parameter is given with a non-empty value
Given(event, group, key) ==
    /\ group \in DOMAIN event
    /\ key \in DOMAIN event[group]
    /\ event[group][key] \notin {None, ""}

AnalyticsRouted(event) ==
    \E route \in AnalyticsRoutes :
        /\ Method(event) = route[1]
        /\ Given(event, "pathParameters", "resource")
        /\ event.pathParameters.resource = route[2]
        /\ route[3] # None => Given(event, "pathParameters", route[3])

UserRouted(event) ==
    \/ Method(event) = "POST"
    \/ Method(event) \in {"GET", "PUT"} /\ Given(event, "pathParameters", "user_id")

NotificationRouted(event) ==
    \/ Method(event) = "POST"
    \/ /\ Method(event) = "GET"
       /\ \/ Given(event, "pathParameters", "notification_id")
          \/ Given(event, "queryStringParameters", "recipient")

\* the body is a string that is not valid JSON
BodyNotJson(event) == "body" \in DOMAIN event /\ ~event.body.parses

\* the body is a non-empty string that is not valid JSON
BodyUnparseable(event) == BodyNotJson(event) /\ event.body # EmptyString

\* the answer of a handler that invoked no operation
Refused(r, answer) ==
    /\ r.statusCode = answer.statusCode
    /\ r.body = answer.body
    /\ r.called = None

\* C27, as stated: each lambda_handler answers every request that matches no
\* route with 405 'Method not allowed' and every request whose body is not
\* valid JSON with 500 'Internal server error', invoking no operation and
\* leaving every store unchanged.
C27_UnroutedAndBadBodyRefused ==
    /\ \A event \in AnalyticsRequests, now \in NowValues :
        LET r == analytics_lambda_handler(events, metrics, event, now)
            Kept == r.events = events /\ r.metrics = metrics
        IN  /\ ~AnalyticsRouted(event) => Refused(r, MethodNotAllowed) /\ Kept
            /\ BodyNotJson(event) => Refused(r, InternalServerError) /\ Kept
    /\ \A event \in UserRequests, now \in NowValues :
        LET r == user_lambda_handler(users, event, now)
            Kept == r.users = users
        IN  /\ ~UserRouted(event) => Refused(r, MethodNotAllowed) /\ Kept
            /\ BodyNotJson(event) => Refused(r, InternalServerError) /\ Kept
    /\ \A event \in NotificationRequests, now \in NowValues, success \in BOOLEAN :
        LET r == notification_lambda_handler(notifications, event, now, success)
            Kept == r.notifications = notifications
        IN  /\ ~NotificationRouted(event) => Refused(r, MethodNotAllowed) /\ Kept
            /\ BodyNotJson(event) => Refused(r, InternalServerError) /\ Kept

\* C27, amended: the body is parsed before the route is chosen, and only when
\* it is not empty.  A request whose body is a non-empty string that is not
\* valid JSON is answered with 500 'Internal server error' whatever its
\* route; a request that matches no route and whose body is absent, empty or
\* valid JSON is answered with 405 'Method not allowed'.  In both cases no
\* operation is invoked and every store is unchanged.
C27_BodyParsedBeforeRouting ==
    /\ \A event \in AnalyticsRequests, now \in NowValues :
        LET r == analytics_lambda_handler(events, metrics, event, now)
            Kept == r.events = events /\ r.metrics = metrics
        IN  /\ ~BodyUnparseable(event) /\ ~AnalyticsRouted(event)
                => Refused(r, MethodNotAllowed) /\ Kept
            /\ BodyUnparseable(event) => Refused(r, InternalServerError) /\ Kept
    /\ \A event \in UserRequests, now \in NowValues :
        LET r == user_lambda_handler(users, event, now)
            Kept == r.users = users
        IN  /\ ~BodyUnparseable(event) /\ ~UserRouted(event)
                => Refused(r, MethodNotAllowed) /\ Kept
            /\ BodyUnparseable(event) => Refused(r, InternalServerError) /\ Kept
    /\ \A event \in NotificationRequests, now \in NowValues, success \in BOOLEAN :
        LET r == notification_lambda_handler(notifications, event, now, success)
            Kept == r.notifications = notifications
        IN  /\ ~BodyUnparseable(event) /\ ~NotificationRouted(event)
                => Refused(r, MethodNotAllowed) /\ Kept
            /\ BodyUnparseable(event) => Refused(r, InternalServerError) /\ Kept

\* the user service holds a user and has just refused a request with 500
C27_Witness ==
    /\ last = [op |-> "user.lambda_handler", statusCode |-> 500]
    /\ users # EmptyDict
    /\ events # <<>>

-----------------------------------------------------------------------------
(* Concurrent track_event and queries *)

EventFields ==
    {"id", "event_name", "user_id", "properties", "timestamp", "session_id",
     "device_type", "platform"}

\* the calls of track_event that have appended their event
Appended ==
    {t \in DOMAIN threads :
        threads[t].op = "track_event"
        /\ \/ threads[t].pc = "return"
           \/ (threads[t].pc = "done" /\ threads[t].statusCode = 200)}

AllDone ==
    /\ Cardinality(DOMAIN threads) = MaxThreads
    /\ \A t \in DOMAIN threads : threads[t].pc = "done"

\* C21: under every interleaving of track_event calls and queries, every
\* event a query reads has all eight fields (it is the finished event of a
\* track_event call), and no successful track_event is lost: the store
\* holds exactly one event for each call that got past the append, so when
\* all calls have returned its length is the number of 200 answers.
C21_NoPartialEventNoLostEvent ==
    /\ \A t \in DOMAIN threads : \A e \in threads[t].seen :
        /\ DOMAIN e = EventFields
        /\ \E w \in DOMAIN threads :
            threads[w].op = "track_event" /\ threads[w].event = e
    /\ Len(events) = Cardinality(Appended)
    /\ Range(events) = {threads[t].event : t \in Appended}
    /\ AllDone =>
        Len(events) = Cardinality({t \in DOMAIN threads :
                                      threads[t].op = "track_event"
                                      /\ threads[t].statusCode = 200})

\* all calls have returned; two track_event calls stored an event while a
\* query ran: the query counted no event at line 92 and read both later
C21_Witness ==
    /\ AllDone
    /\ Len(events) = 2
    /\ \E t \in DOMAIN threads :
        /\ threads[t].op = "get_event_analytics"
        /\ threads[t].total_events = 0
        /\ Cardinality(threads[t].seen) = 2

-----------------------------------------------------------------------------
(* Concurrent update_user *)

\* the call of thread t has answered 200 on user_id with exactly update_data
Updated(t, user_id, update_data) ==
    /\ t \in DOMAIN threads
    /\ threads[t].op = "update_user"
    /\ threads[t].pc = "done"
    /\ threads[t].statusCode = 200
    /\ threads[t].user_id = user_id
    /\ threads[t].data = update_data

\* C30: no update is lost under concurrency: when two update_user calls on
\* the same existing user have run, one changing only name and the other
\* only email, the stored user has both the new name and the new email.
C30_NoLostUpdate ==
    \A user_id \in DOMAIN users :
        \A t1 \in DOMAIN threads, t2 \in DOMAIN threads :
            /\ Updated(t1, user_id, [name |-> "Bob"])
            /\ Updated(t2, user_id, [email |-> "bob@example.com"])
            => /\ users[user_id].name = "Bob"
               /\ users[user_id].email = "bob@example.com"

====
